---------------------------- MODULE Spec2Model ----------------------------
(***************************************************************************)
(* Free Deep Research System: the two operational-visibility servers.     *)
(*                                                                         *)
(*   health-server.py        HealthCheckHandler  (component health checks, *)
(*                           the overall verdict, the metrics text)        *)
(*   port-status-service.py  PortStatusHandler   (registry file, port      *)
(*                           probe, service discovery)                     *)
(*                                                                         *)
(* Each server handles one GET at a time (BaseHTTPRequestHandler under a   *)
(* plain HTTPServer).  A request is a message in flight: a client puts a   *)
(* path, do_GET dispatches on it and the handler writes the response.      *)
(* Timestamps and the uptime number are left out of the response bodies:   *)
(* no decision of either server reads them.                                *)
(***************************************************************************)
EXTENDS Integers, Sequences, FiniteSets, TLC

VARIABLES
    cpu,          \* psutil.cpu_percent(): a reading
    memory,       \* psutil.virtual_memory().percent: a reading
    disk,         \* psutil.disk_usage('/').percent: a reading
    diskCheck,    \* the reading check_disk_health made for the last GET
    memoryCheck,  \* the reading check_memory_health made for the last GET
    pgDriver,     \* TRUE iff `import psycopg2` succeeds
    pgUp,         \* TRUE iff psycopg2.connect + SELECT 1 succeed
    sqliteUp,     \* TRUE iff sqlite3.connect + SELECT 1 succeed
    stubs,        \* <<>>, or five reports that replace the check_* methods
    request,      \* health server: path of the GET in flight, or NoRequest
    response,     \* health server: the response written for the last GET
    registryExists, \* os.path.exists(self.port_registry_file)
    registry,     \* the lines of the .env.ports file
    listeners,    \* the TCP ports of localhost that accept connections
    portRequest,  \* port service: path of the GET in flight, or NoRequest
    portResponse, \* port service: the response on its way to the client
    handler,      \* port service: where the handler of the GET stands in
                  \* its loop over the registry entries, and its locals
    network,      \* the condition of the loopback network and of sockets
    probePort,    \* the argument of a direct call of is_port_available
    probeResult,  \* what that call returned, or NoProbe
    docker        \* what subprocess.run(['docker', 'ps', ...]) does

healthVars == <<cpu, memory, disk, diskCheck, memoryCheck,
                pgDriver, pgUp, sqliteUp, stubs, request, response>>

portVars == <<registryExists, registry, listeners, portRequest, portResponse,
              handler>>

envVars == <<network, probePort, probeResult, docker>>

vars == <<cpu, memory, disk, diskCheck, memoryCheck,
          pgDriver, pgUp, sqliteUp, stubs, request, response,
          registryExists, registry, listeners, portRequest, portResponse,
          handler, network, probePort, probeResult, docker>>

NoRequest == "none"
NoResponse == [code |-> 0]

(***************************************************************************)
(* psutil readings.  A reading is a percentage, or the call raised.        *)
(***************************************************************************)
Percents == {70, 71, 80, 81, 85, 86, 90, 91, 95, 96}
Reading(p) == [ok |-> TRUE, percent |-> p]
ReadFailure == [ok |-> FALSE]
\* a read that the request has not made
NotRead == [read |-> FALSE]
Readings == {Reading(p) : p \in Percents} \cup {ReadFailure}

\* thresholds of check_system_health
SYSTEM_CRITICAL == 90
SYSTEM_WARNING == 70
SYSTEM_DISK_WARNING == 80
\* thresholds of check_disk_health
DISK_CRITICAL == 95
DISK_WARNING == 85
\* thresholds of check_memory_health
MEMORY_CRITICAL == 95
MEMORY_WARNING == 85

(***************************************************************************)
(* Component checkers.                                                     *)
(***************************************************************************)
\* check_postgresql with the ImportError clause lost: the generic handler
\* reports the missing driver as a failed check
CheckPostgresqlNoImportClause(driver, up) ==
    IF driver /\ up
    THEN [status |-> "healthy", type |-> "postgresql",
          host |-> "database", database |-> "free_deep_research"]
    ELSE [status |-> "unhealthy", type |-> "postgresql",
          error |-> "connection failed"]

\* check_postgresql: ImportError -> unavailable, any other failure -> unhealthy
CheckPostgresql(driver, up) ==
    IF ~driver
    THEN [status |-> "unavailable", type |-> "postgresql",
          error |-> "psycopg2 not installed"]
    ELSE IF up
    THEN [status |-> "healthy", type |-> "postgresql",
          host |-> "database", database |-> "free_deep_research"]
    ELSE [status |-> "unhealthy", type |-> "postgresql",
          error |-> "connection failed"]

\* check_sqlite
CheckSqlite(up) ==
    IF up
    THEN [status |-> "healthy", type |-> "sqlite",
          path |-> "/app/data/research.db"]
    ELSE [status |-> "unhealthy", type |-> "sqlite",
          error |-> "connection failed"]

\* check_database_health: both sub-attempts run, in this order
CheckDatabaseHealth(driver, pg, sq) ==
    LET pg_status == CheckPostgresql(driver, pg)
        sqlite_status == CheckSqlite(sq)
    IN  [status |-> IF pg_status.status = "healthy"
                       \/ sqlite_status.status = "healthy"
                    THEN "healthy" ELSE "unhealthy",
         postgresql |-> pg_status,
         sqlite |-> sqlite_status]

\* check_system_health
CheckSystemHealth(c, m, d) ==
    IF ~c.ok \/ ~m.ok \/ ~d.ok
    THEN [status |-> "unhealthy", error |-> "psutil"]
    ELSE [status |->
             IF c.percent > SYSTEM_CRITICAL \/ m.percent > SYSTEM_CRITICAL
                \/ d.percent > SYSTEM_CRITICAL
             THEN "unhealthy"
             ELSE IF c.percent > SYSTEM_WARNING \/ m.percent > SYSTEM_WARNING
                     \/ d.percent > SYSTEM_DISK_WARNING
             THEN "warning"
             ELSE "healthy",
          cpu_percent |-> c.percent,
          memory_percent |-> m.percent,
          disk_percent |-> d.percent]

\* check_services_health: a fixed placeholder
CheckServicesHealth ==
    [status |-> "healthy",
     api_services |-> [openrouter |-> "unknown", serpapi |-> "unknown",
                       jina |-> "unknown", firecrawl |-> "unknown",
                       tavily |-> "unknown", exa |-> "unknown"]]

\* check_disk_health
CheckDiskHealth(d) ==
    IF ~d.ok
    THEN [status |-> "unhealthy", error |-> "psutil"]
    ELSE [status |-> IF d.percent > DISK_CRITICAL THEN "unhealthy"
                     ELSE IF d.percent > DISK_WARNING THEN "warning"
                     ELSE "healthy",
          usage_percent |-> d.percent]

\* check_memory_health
CheckMemoryHealth(m) ==
    IF ~m.ok
    THEN [status |-> "unhealthy", error |-> "psutil"]
    ELSE [status |-> IF m.percent > MEMORY_CRITICAL THEN "unhealthy"
                     ELSE IF m.percent > MEMORY_WARNING THEN "warning"
                     ELSE "healthy",
          usage_percent |-> m.percent]

(***************************************************************************)
(* handle_detailed_health: the components dict (insertion ordered) and the *)
(* overall status.                                                         *)
(***************************************************************************)
ComponentNames == <<"database", "system", "services", "disk", "memory">>

\* the five check_* calls of the dict literal, in its order.  Each checker
\* makes its own psutil reads: check_system_health reads cpu, memory and
\* disk; check_disk_health and check_memory_health read disk and memory
\* again, later in the same request
CheckedReports(disk_again, memory_again) ==
    <<CheckDatabaseHealth(pgDriver, pgUp, sqliteUp),
      CheckSystemHealth(cpu, memory, disk),
      CheckServicesHealth,
      CheckDiskHealth(disk_again),
      CheckMemoryHealth(memory_again)>>

Components(disk_again, memory_again) ==
    LET reports == IF stubs = <<>>
                   THEN CheckedReports(disk_again, memory_again) ELSE stubs
    IN  [i \in 1..Len(ComponentNames) |->
            [name |-> ComponentNames[i], report |-> reports[i]]]

\* comp.get("status", "unknown")
GetStatus(comp) ==
    IF "status" \in DOMAIN comp THEN comp.status ELSE "unknown"

\* the aggregation with its two tests in the wrong order
DetermineOverallWarningFirst(components) ==
    LET Has(v) == \E i \in 1..Len(components) :
                      GetStatus(components[i].report) = v
    IN  IF Has("warning") THEN "warning"
        ELSE IF Has("unhealthy") THEN "unhealthy"
        ELSE "healthy"

\* "Determine overall status": starts at healthy, raised by unhealthy, else
\* by warning
DetermineOverall(components) ==
    LET component_statuses ==
            [i \in 1..Len(components) |-> GetStatus(components[i].report)]
        Has(v) == \E i \in 1..Len(components) : component_statuses[i] = v
    IN  IF Has("unhealthy") THEN "unhealthy"
        ELSE IF Has("warning") THEN "warning"
        ELSE "healthy"

DetailedHealth(components) ==
    [status |-> DetermineOverall(components),
     service |-> "free-deep-research-backend",
     version |-> "3.0.0",
     components |-> components]

(***************************************************************************)
(* generate_metrics: the samples of the exposition text, in text order.    *)
(* A failing psutil read replaces the whole text by one comment line.      *)
(***************************************************************************)
GenerateMetrics(c, m, d) ==
    IF ~c.ok \/ ~m.ok \/ ~d.ok
    THEN [error |-> "# Error generating metrics", samples |-> <<>>]
    ELSE [samples |->
            <<[name |-> "fdr_cpu_usage_percent", type |-> "gauge",
               value |-> c.percent],
              [name |-> "fdr_memory_usage_percent", type |-> "gauge",
               value |-> m.percent],
              [name |-> "fdr_disk_usage_percent", type |-> "gauge",
               value |-> d.percent],
              [name |-> "fdr_uptime_seconds", type |-> "counter",
               value |-> 0],
              [name |-> "fdr_health_status", type |-> "gauge",
               value |-> 1]>>]

(***************************************************************************)
(* The health server's requests.                                           *)
(***************************************************************************)
HealthPaths == {"/health", "/health/detailed", "/health/database",
                "/health/services", "/health/system", "/metrics",
                "/unknown"}

Respond(path, code, body) == [path |-> path, code |-> code, body |-> body]

\* a client sends GET path
SendRequest(path) ==
    /\ request = NoRequest
    /\ request' = path
    /\ response' = NoResponse
    /\ diskCheck' = NotRead
    /\ memoryCheck' = NotRead
    /\ UNCHANGED <<cpu, memory, disk, pgDriver, pgUp, sqliteUp, stubs>>
    /\ UNCHANGED portVars
    /\ UNCHANGED envVars

Handle(path, code, body) ==
    /\ request = path
    /\ request' = NoRequest
    /\ response' = Respond(path, code, body)
    /\ UNCHANGED <<diskCheck, memoryCheck>>
    /\ UNCHANGED <<cpu, memory, disk, pgDriver, pgUp, sqliteUp, stubs>>
    /\ UNCHANGED portVars
    /\ UNCHANGED envVars

HandleBasicHealth ==
    Handle("/health", 200,
           [status |-> "healthy", service |-> "free-deep-research-backend",
            version |-> "3.0.0"])

\* what a psutil read made later in the request may return: the system
\* moves on while the earlier checkers wait (connect_timeout=5,
\* cpu_percent(interval=1)); stubbed checkers read nothing
LaterReadings == IF stubs = <<>> THEN Readings ELSE {NotRead}

\* handle_detailed_health, given the two later reads
DetailedHealthStep(code, body, disk_again, memory_again) ==
    /\ request = "/health/detailed"
    /\ request' = NoRequest
    /\ response' = Respond("/health/detailed", code, body)
    /\ diskCheck' = disk_again
    /\ memoryCheck' = memory_again
    /\ UNCHANGED <<cpu, memory, disk, pgDriver, pgUp, sqliteUp, stubs>>
    /\ UNCHANGED portVars
    /\ UNCHANGED envVars

\* the handler with no handler in the checkers: a failing read surfaces
\* in handle_detailed_health's own except clause
HandleDetailedHealthAborts ==
    \E disk_again \in LaterReadings, memory_again \in LaterReadings :
        IF stubs = <<>>
           /\ ~(cpu.ok /\ memory.ok /\ disk.ok
                /\ disk_again.ok /\ memory_again.ok)
        THEN DetailedHealthStep(500,
                 [error |-> "Detailed health check failed"],
                 disk_again, memory_again)
        ELSE DetailedHealthStep(200,
                 DetailedHealth(Components(disk_again, memory_again)),
                 disk_again, memory_again)

HandleDetailedHealth ==
    \E disk_again \in LaterReadings, memory_again \in LaterReadings :
        DetailedHealthStep(200,
            DetailedHealth(Components(disk_again, memory_again)),
            disk_again, memory_again)

HandleDatabaseHealth ==
    Handle("/health/database", 200,
           CheckDatabaseHealth(pgDriver, pgUp, sqliteUp))

HandleServicesHealth ==
    Handle("/health/services", 200, CheckServicesHealth)

HandleSystemHealth ==
    Handle("/health/system", 200, CheckSystemHealth(cpu, memory, disk))

HandleMetrics ==
    Handle("/metrics", 200, GenerateMetrics(cpu, memory, disk))

\* do_GET's else branch
HandleNotFound ==
    Handle("/unknown", 404, [status |-> "Not Found"])

(***************************************************************************)
(* port-status-service.py.  Text of the registry file.                     *)
(*                                                                         *)
(* A line is a sequence of chunks of characters.  The characters the code  *)
(* looks for are chunks of their own: the blank " ", "#", "=", the suffix  *)
(* "_PORT" and every character of a value; the other chunks are runs of    *)
(* characters that contain none of these.  A string of the program (a key, *)
(* a value) is the sequence of its chunks.                                 *)
(***************************************************************************)
MaxRegistryLines == 3

FRONTEND_PORT == <<"FRONTEND", "_PORT">>
BACKEND_PORT == <<"BACKEND", "_PORT">>
GRAFANA_PORT == <<"GRAFANA", "_PORT">>
PROMETHEUS_PORT == <<"PROMETHEUS", "_PORT">>
ADMINER_PORT == <<"ADMINER", "_PORT">>
REDIS_COMMANDER_PORT == <<"REDIS_COMMANDER", "_PORT">>
MAILHOG_WEB_PORT == <<"MAILHOG_WEB", "_PORT">>
DEV_DASHBOARD_PORT == <<"DEV_DASHBOARD", "_PORT">>

\* the lines a registry file is written from
RegistryLines ==
    { FRONTEND_PORT \o <<"=", "3", "0", "0", "0">>,
      BACKEND_PORT \o <<"=", "8", "0", "8", "0">>,
      <<" ">> \o GRAFANA_PORT \o <<"=", "3", "0", "0", "0", " ">>,
      FRONTEND_PORT \o <<"=", "8", "0", "8", "0">>,
      BACKEND_PORT \o <<"=", "x">>,
      BACKEND_PORT \o <<"=", "U+00B2">>,
      GRAFANA_PORT \o <<"=", "0">>,
      GRAFANA_PORT \o <<"=", "7", "0", "0", "0", "0">>,
      <<"CUSTOM", "_PORT", "=", "8", "0", "8", "0">>,
      <<"BACKEND", "_HOST", "=", "8", "0", "8", "0">>,
      FRONTEND_PORT \o <<" ", "=", " ", "3", "0", "0", "0">>,
      BACKEND_PORT \o <<"=">>,
      FRONTEND_PORT,
      <<"#", " ">> \o BACKEND_PORT \o <<"=", "8", "0", "8", "0">>,
      <<" ">>,
      <<>> }

\* the ports a listener may be bound to
ListenPorts == {3000, 8080}

\* str.strip()
RECURSIVE LStrip(_)
LStrip(line) ==
    IF line # <<>> /\ Head(line) = " " THEN LStrip(Tail(line)) ELSE line
RECURSIVE RStrip(_)
RStrip(line) ==
    IF line # <<>> /\ line[Len(line)] = " "
    THEN RStrip(SubSeq(line, 1, Len(line) - 1)) ELSE line
Strip(line) == RStrip(LStrip(line))

\* line.startswith('#')
StartsWithHash(line) == line # <<>> /\ Head(line) = "#"

\* '=' in line
ContainsEq(line) == \E i \in 1..Len(line) : line[i] = "="

\* line.split('=', 1), for a line that contains '='
SplitEq(line) ==
    LET i == CHOOSE j \in 1..Len(line) :
                 line[j] = "=" /\ \A k \in 1..(j - 1) : line[k] # "="
    IN  [key |-> SubSeq(line, 1, i - 1),
         value |-> SubSeq(line, i + 1, Len(line))]

\* key.endswith('_PORT')
EndsWithPort(key) == key # <<>> /\ key[Len(key)] = "_PORT"

\* an assignment that moves a known key to the end of the dict
DictSetMovesToEnd(d, key, value) ==
    Append(SelectSeq(d, LAMBDA e : e.key # key),
           [key |-> key, value |-> value])

\* d[key] = value on an insertion-ordered dict: a known key keeps its place
DictSet(d, key, value) ==
    IF \E i \in 1..Len(d) : d[i].key = key
    THEN [i \in 1..Len(d) |->
             IF d[i].key = key THEN [key |-> key, value |-> value] ELSE d[i]]
    ELSE Append(d, [key |-> key, value |-> value])

\* key in d
DictHas(d, key) == \E i \in 1..Len(d) : d[i].key = key

\* d[key], for a key in d
DictGet(d, key) == d[CHOOSE i \in 1..Len(d) : d[i].key = key].value

\* the loop of get_port_assignments over the lines of the file
RECURSIVE ReadLines(_, _)
ReadLines(lines, ports) ==
    IF lines = <<>> THEN ports
    ELSE LET line == Strip(Head(lines))
         IN  IF line # <<>> /\ ~StartsWithHash(line) /\ ContainsEq(line)
             THEN LET kv == SplitEq(line)
                  IN  IF EndsWithPort(kv.key)
                      THEN ReadLines(Tail(lines),
                                     DictSet(ports, kv.key, kv.value))
                      ELSE ReadLines(Tail(lines), ports)
             ELSE ReadLines(Tail(lines), ports)

\* get_port_assignments ignoring the file: no entry is ever read
GetPortAssignmentsNeverReads(exists, lines) == <<>>

\* get_port_assignments
GetPortAssignments(exists, lines) ==
    IF ~exists THEN <<>> ELSE ReadLines(lines, <<>>)

\* str.isdigit() per character: the decimal digits, and digits such as
\* the superscript two (U+00B2) that int() does not accept
DecimalDigits == {"0", "1", "2", "3", "4", "5", "6", "7", "8", "9"}
IsDigitChar(c) == c \in DecimalDigits \cup {"U+00B2"}

\* port.isdigit()
IsDigit(s) == s # <<>> /\ \A i \in 1..Len(s) : IsDigitChar(s[i])

DigitValue(c) ==
    CASE c = "0" -> 0 [] c = "1" -> 1 [] c = "2" -> 2 [] c = "3" -> 3
      [] c = "4" -> 4 [] c = "5" -> 5 [] c = "6" -> 6 [] c = "7" -> 7
      [] c = "8" -> 8 [] c = "9" -> 9

RECURSIVE DecimalValue(_)
DecimalValue(s) ==
    IF s = <<>> THEN 0
    ELSE 10 * DecimalValue(SubSeq(s, 1, Len(s) - 1)) + DigitValue(s[Len(s)])

\* int(port): the number, or ValueError
ParseInt(s) ==
    IF s # <<>> /\ \A i \in 1..Len(s) : s[i] \in DecimalDigits
    THEN [ok |-> TRUE, value |-> DecimalValue(s)]
    ELSE [ok |-> FALSE]

MaxPort == 65535

\* the conditions under which a probe runs
Networks == {"up", "timeout", "dns_failure", "no_sockets"}

\* socket.socket(...) and sock.connect_ex(('localhost', port)): the errno
\* returned, or the exception raised (no descriptor left, 'localhost' not
\* resolved, a port outside 0..65535)
ECONNREFUSED == 111
EAGAIN == 11
ConnectEx(port, listening, net) ==
    IF net = "no_sockets" THEN [raised |-> "OSError"]
    ELSE IF net = "dns_failure" THEN [raised |-> "gaierror"]
    ELSE IF port < 0 \/ port > MaxPort THEN [raised |-> "OverflowError"]
    ELSE IF net = "timeout" THEN [raised |-> "", errno |-> EAGAIN]
    ELSE IF port \in listening THEN [raised |-> "", errno |-> 0]
    ELSE [raised |-> "", errno |-> ECONNREFUSED]

\* is_port_available with the result of connect_ex read the wrong way round
IsPortAvailableInverted(port, listening) ==
    LET result == ConnectEx(port, listening, network)
    IN  IF result.raised # "" THEN TRUE ELSE result.errno = 0

\* is_port_available: available iff connect_ex is not 0; any exception is
\* caught and reported as available
IsPortAvailable(port, listening) ==
    LET result == ConnectEx(port, listening, network)
    IN  IF result.raised # "" THEN TRUE ELSE result.errno # 0

(***************************************************************************)
(* handle_service_discovery                                                *)
(***************************************************************************)
\* service_mapping, in the order of the dict literal
service_mapping ==
    << [key |-> FRONTEND_PORT,
        value |-> [name |-> "Frontend", path |-> "/", icon |-> "globe"]],
       [key |-> BACKEND_PORT,
        value |-> [name |-> "Backend API", path |-> "/health",
                   icon |-> "wrench"]],
       [key |-> GRAFANA_PORT,
        value |-> [name |-> "Grafana", path |-> "/", icon |-> "chart-up"]],
       [key |-> PROMETHEUS_PORT,
        value |-> [name |-> "Prometheus", path |-> "/", icon |-> "bar-chart"]],
       [key |-> ADMINER_PORT,
        value |-> [name |-> "Database Admin", path |-> "/",
                   icon |-> "cabinet"]],
       [key |-> REDIS_COMMANDER_PORT,
        value |-> [name |-> "Redis Commander", path |-> "/",
                   icon |-> "red-circle"]],
       [key |-> MAILHOG_WEB_PORT,
        value |-> [name |-> "Mailhog", path |-> "/", icon |-> "e-mail"]],
       [key |-> DEV_DASHBOARD_PORT,
        value |-> [name |-> "Dev Dashboard", path |-> "/",
                   icon |-> "tools"]] >>

\* str.lower() of a chunk of a key of service_mapping
Lower(chunk) ==
    CASE chunk = "_PORT" -> "_port"
      [] chunk = "FRONTEND" -> "frontend"
      [] chunk = "BACKEND" -> "backend"
      [] chunk = "GRAFANA" -> "grafana"
      [] chunk = "PROMETHEUS" -> "prometheus"
      [] chunk = "ADMINER" -> "adminer"
      [] chunk = "REDIS_COMMANDER" -> "redis_commander"
      [] chunk = "MAILHOG_WEB" -> "mailhog_web"
      [] chunk = "DEV_DASHBOARD" -> "dev_dashboard"

\* service_key.lower().replace('_port', ''), as one string
RECURSIVE ShortKey(_)
ShortKey(key) ==
    IF key = <<>> THEN ""
    ELSE IF Lower(Head(key)) = "_port" THEN ShortKey(Tail(key))
    ELSE Lower(Head(key)) \o ShortKey(Tail(key))

\* the entry with the status expression read the wrong way round
ServiceEntryStatusInverted(mapping, port_int, is_available) ==
    [name |-> mapping.name,
     icon |-> mapping.icon,
     port |-> port_int,
     url |-> [host |-> "localhost", port |-> port_int, path |-> mapping.path],
     status |-> IF is_available THEN "stopped" ELSE "running",
     health_check |-> [host |-> "localhost", port |-> port_int,
                       path |-> "/health"]]

\* the services[...] = {...} assignment of the loop body
ServiceEntry(mapping, port_int, is_available) ==
    [name |-> mapping.name,
     icon |-> mapping.icon,
     port |-> port_int,
     url |-> [host |-> "localhost", port |-> port_int, path |-> mapping.path],
     status |-> IF is_available THEN "running" ELSE "stopped",
     health_check |-> [host |-> "localhost", port |-> port_int,
                       path |-> "/health"]]

\* one pass of the loop over ports.items() in handle_service_discovery:
\* the services dict after it and the port it connected to, or the
\* exception int() raised
ServiceItem(item, services, listening) ==
    LET service_key == item.key
        port == item.value
    IN  IF port # <<>> /\ IsDigit(port)
           /\ DictHas(service_mapping, service_key)
        THEN LET port_int == ParseInt(port)
             IN  IF ~port_int.ok THEN [ok |-> FALSE]
                 ELSE LET is_available ==
                              ~IsPortAvailable(port_int.value, listening)
                      IN  [ok |-> TRUE,
                           connects |-> <<port_int.value>>,
                           result |->
                               IF is_available
                               THEN DictSet(services, ShortKey(service_key),
                                            ServiceEntry(
                                                DictGet(service_mapping,
                                                        service_key),
                                                port_int.value,
                                                is_available))
                               ELSE services]
        ELSE [ok |-> TRUE, connects |-> <<>>, result |-> services]

\* sum(1 for s in services.values() if s["status"] == "running")
CountRunning(services) ==
    Cardinality({i \in 1..Len(services) :
                    services[i].value.status = "running"})

\* the response of handle_service_discovery once the loop has ended
ServiceDiscovery(services) ==
    [code |-> 200,
     body |-> [status |-> "success",
               services |-> services,
               total_services |-> Len(services),
               running_services |-> CountRunning(services)]]

\* send_error_response
ErrorResponse(message) ==
    [code |-> 500, body |-> [status |-> "error", message |-> message]]

(***************************************************************************)
(* handle_port_status                                                      *)
(***************************************************************************)
\* None
PyNone == [none |-> TRUE]

\* the entry with the url filled in whatever the probe said
PortEntryUrlAlways(port_int, is_available) ==
    [port |-> port_int,
     available |-> is_available,
     status |-> IF is_available THEN "free" ELSE "in_use",
     url |-> [host |-> "localhost", port |-> port_int]]

\* the port_status[service] = {...} assignment of the loop body
PortEntry(port_int, is_available) ==
    [port |-> port_int,
     available |-> is_available,
     status |-> IF is_available THEN "free" ELSE "in_use",
     url |-> IF ~is_available
             THEN [host |-> "localhost", port |-> port_int]
             ELSE PyNone]

\* one pass of the loop over ports.items() in handle_port_status: the
\* port_status dict after it and the port it connected to, or the
\* exception int() raised
PortItem(item, port_status, listening) ==
    LET service == item.key
        port == item.value
    IN  IF port # <<>> /\ IsDigit(port)
        THEN LET port_int == ParseInt(port)
             IN  IF ~port_int.ok THEN [ok |-> FALSE]
                 ELSE [ok |-> TRUE,
                       connects |-> <<port_int.value>>,
                       result |->
                           DictSet(port_status, service,
                                   PortEntry(port_int.value,
                                             IsPortAvailable(port_int.value,
                                                             listening)))]
        ELSE [ok |-> TRUE, connects |-> <<>>, result |-> port_status]

CountInUse(port_status) ==
    Cardinality({i \in 1..Len(port_status) : ~port_status[i].value.available})

\* the response of handle_port_status once the loop has ended
PortStatus(port_status) ==
    [code |-> 200,
     body |-> [status |-> "success",
               ports |-> port_status,
               total_ports |-> Len(port_status),
               ports_in_use |-> CountInUse(port_status)]]

(***************************************************************************)
(* get_container_status and handle_container_status.  A line of the        *)
(* listing is what json.loads makes of it: an object (its fields), another *)
(* JSON value, or text that is no JSON; or the line is empty.              *)
(***************************************************************************)
MaxListingLines == 3

ListingLines ==
    { [json |-> "object",
       fields |-> [Names |-> "free-deep-research-backend",
                   State |-> "running", Image |-> "fdr/backend",
                   Ports |-> "8080/tcp", CreatedAt |-> "2024-01-01"]],
      [json |-> "object",
       fields |-> [Names |-> "free-deep-research-redis",
                   State |-> "exited", Image |-> "redis",
                   Ports |-> "", CreatedAt |-> "2024-01-02"]],
      [json |-> "object", fields |-> [Names |-> "free-deep-research-db"]],
      [json |-> "array"],
      [json |-> "invalid"],
      [json |-> "empty"] }

\* the ways subprocess.run ends
DockerOutcomes == {"exit_0", "exit_1", "timeout", "not_started"}

\* container_info.get(key, "")
GetField(container_info, key) ==
    IF key \in DOMAIN container_info THEN container_info[key] ELSE ""

\* the containers.append({...}) of the loop body
ContainerRecord(container_info) ==
    [name |-> GetField(container_info, "Names"),
     status |-> GetField(container_info, "State"),
     image |-> GetField(container_info, "Image"),
     ports |-> GetField(container_info, "Ports"),
     created |-> GetField(container_info, "CreatedAt")]

\* the loop over the lines of stdout: an empty line is skipped, a
\* JSONDecodeError continues with the next line, and the AttributeError of
\* .get on a value that is no dict leaves the loop through the outer handler
RECURSIVE ParseListing(_, _)
ParseListing(lines, containers) ==
    IF lines = <<>> THEN containers
    ELSE LET line == Head(lines)
         IN  IF line.json = "empty" THEN ParseListing(Tail(lines), containers)
             ELSE IF line.json = "invalid"
             THEN ParseListing(Tail(lines), containers)
             ELSE IF line.json # "object" THEN containers
             ELSE ParseListing(Tail(lines),
                               Append(containers,
                                      ContainerRecord(line.fields)))

\* get_container_status that reads stdout whatever the exit code
GetContainerStatusAnyExit(run) ==
    IF run.outcome \in {"timeout", "not_started"} THEN <<>>
    ELSE ParseListing(run.stdout, <<>>)

\* get_container_status
GetContainerStatus(run) ==
    IF run.outcome \in {"timeout", "not_started"} THEN <<>>
    ELSE IF run.outcome # "exit_0" THEN <<>>
    ELSE ParseListing(run.stdout, <<>>)

\* the response of handle_container_status
ContainerStatus(run) ==
    LET containers == GetContainerStatus(run)
    IN  [code |-> 200,
         body |-> [status |-> "success",
                   containers |-> containers,
                   total_containers |-> Len(containers),
                   running_containers |->
                       Cardinality({i \in 1..Len(containers) :
                                       containers[i].status = "running"})]]

(***************************************************************************)
(* The port service's requests, and its environment: the registry file and *)
(* the listeners.  handle_port_status and handle_service_discovery read    *)
(* the registry file once and then connect to one port after the other     *)
(* (each connect may take up to a second): a listener may open or close    *)
(* between two connects.  A change of the registry file after the handler  *)
(* has read it cannot reach the response, and a response stays on the wire *)
(* until the client has read it: the file is held still from the read to   *)
(* the receipt, the listeners while the response is on the wire.           *)
(***************************************************************************)
PortPaths == {"/health", "/ports", "/services", "/containers", "/", "/unknown"}

\* the handler is not in a loop
Idle == [at |-> "idle"]

\* the handler is in its loop: the items of ports.items() still to visit,
\* the dict built so far, and the connects made so far, each with the key
\* it was made for and whether a listener accepted it
InLoop(items, result, connects) ==
    [at |-> "loop", items |-> items, result |-> result, connects |-> connects]

\* the handler has answered: the connects it made
Done(connects) == [at |-> "done", connects |-> connects]

\* a connection to localhost:port is accepted
Accepts(port) == network = "up" /\ port \in listeners

PortSendRequest(path) ==
    /\ portRequest = NoRequest
    /\ portResponse = NoResponse
    /\ portRequest' = path
    /\ UNCHANGED <<registryExists, registry, listeners, portResponse, handler>>
    /\ UNCHANGED healthVars
    /\ UNCHANGED envVars

PortReceiveResponse ==
    /\ portResponse # NoResponse
    /\ portResponse' = NoResponse
    /\ handler' = Idle
    /\ UNCHANGED <<registryExists, registry, listeners, portRequest>>
    /\ UNCHANGED healthVars
    /\ UNCHANGED envVars

\* a handler that writes its response without a loop
PortHandle(path, code, body) ==
    /\ portRequest = path
    /\ portRequest' = NoRequest
    /\ portResponse' = Respond(path, code, body)
    /\ UNCHANGED <<registryExists, registry, listeners, handler>>
    /\ UNCHANGED healthVars
    /\ UNCHANGED envVars

HandleHealthCheck ==
    PortHandle("/health", 200,
               [status |-> "healthy", service |-> "port-status-service",
                version |-> "1.0.0"])

\* handle_index: the dashboard page
HandleIndex ==
    PortHandle("/", 200, [content_type |-> "text/html"])

HandleContainerStatus ==
    LET r == ContainerStatus(docker)
    IN  PortHandle("/containers", r.code, r.body)

PortHandleNotFound ==
    PortHandle("/unknown", 404, [status |-> "Not Found"])

\* ports = self.get_port_assignments(), first statement of both handlers
ReadRegistry(path) ==
    /\ portRequest = path
    /\ handler = Idle
    /\ handler' = InLoop(GetPortAssignments(registryExists, registry),
                         <<>>, <<>>)
    /\ UNCHANGED <<registryExists, registry, listeners, portRequest,
                   portResponse>>
    /\ UNCHANGED healthVars
    /\ UNCHANGED envVars

\* the handler writes its response and returns
Answer(path, r) ==
    /\ portRequest' = NoRequest
    /\ portResponse' = Respond(path, r.code, r.body)
    /\ handler' = Done(handler.connects)
    /\ UNCHANGED <<registryExists, registry, listeners>>
    /\ UNCHANGED healthVars
    /\ UNCHANGED envVars

\* one pass of the loop: the next item is visited with the listeners as
\* they are now; an exception ends the handler with the error response
LoopPass(path, pass, message) ==
    IF pass.ok
    THEN /\ handler' =
                InLoop(Tail(handler.items), pass.result,
                       handler.connects \o
                           [i \in 1..Len(pass.connects) |->
                               [key |-> Head(handler.items).key,
                                port |-> pass.connects[i],
                                accepted |-> Accepts(pass.connects[i])]])
         /\ UNCHANGED <<registryExists, registry, listeners, portRequest,
                        portResponse>>
         /\ UNCHANGED healthVars
         /\ UNCHANGED envVars
    ELSE Answer(path, ErrorResponse(message))

\* handle_port_status
StartPortStatus == ReadRegistry("/ports")

ProbeNextPort ==
    /\ portRequest = "/ports"
    /\ handler.at = "loop"
    /\ handler.items # <<>>
    /\ LoopPass("/ports",
                PortItem(Head(handler.items), handler.result, listeners),
                "Failed to get port status")

FinishPortStatus ==
    /\ portRequest = "/ports"
    /\ handler.at = "loop"
    /\ handler.items = <<>>
    /\ Answer("/ports", PortStatus(handler.result))

\* handle_service_discovery
StartServiceDiscovery == ReadRegistry("/services")

ProbeNextService ==
    /\ portRequest = "/services"
    /\ handler.at = "loop"
    /\ handler.items # <<>>
    /\ LoopPass("/services",
                ServiceItem(Head(handler.items), handler.result, listeners),
                "Failed to get service discovery")

FinishServiceDiscovery ==
    /\ portRequest = "/services"
    /\ handler.at = "loop"
    /\ handler.items = <<>>
    /\ Answer("/services", ServiceDiscovery(handler.result))

\* a line is appended to the registry file (the file is created if missing)
AppendRegistryLine(line) ==
    /\ portResponse = NoResponse
    /\ handler = Idle
    /\ Len(registry) < MaxRegistryLines
    /\ registryExists' = TRUE
    /\ registry' = Append(registry, line)
    /\ UNCHANGED <<listeners, portRequest, portResponse, handler>>
    /\ UNCHANGED healthVars
    /\ UNCHANGED envVars

\* the registry file is removed
RemoveRegistry ==
    /\ portResponse = NoResponse
    /\ handler = Idle
    /\ registryExists
    /\ registryExists' = FALSE
    /\ registry' = <<>>
    /\ UNCHANGED <<listeners, portRequest, portResponse, handler>>
    /\ UNCHANGED healthVars
    /\ UNCHANGED envVars

OpenListener(port) ==
    /\ portResponse = NoResponse
    /\ port \notin listeners
    /\ listeners' = listeners \cup {port}
    /\ UNCHANGED <<registryExists, registry, portRequest, portResponse,
                   handler>>
    /\ UNCHANGED healthVars
    /\ UNCHANGED envVars

CloseListener(port) ==
    /\ portResponse = NoResponse
    /\ port \in listeners
    /\ listeners' = listeners \ {port}
    /\ UNCHANGED <<registryExists, registry, portRequest, portResponse,
                   handler>>
    /\ UNCHANGED healthVars
    /\ UNCHANGED envVars

\* the port service before its first request: no registry file yet
NoProbe == [called |-> FALSE]
NoDocker == [outcome |-> "not_started", stdout |-> <<>>]

\* docker ps prints one running container
OneContainer ==
    [outcome |-> "exit_0",
     stdout |-> <<[json |-> "object",
                   fields |-> [Names |-> "free-deep-research-backend",
                               State |-> "running", Image |-> "fdr/backend",
                               Ports |-> "8080/tcp",
                               CreatedAt |-> "2024-01-01"]]>>]

PortInit ==
    /\ network = "up"
    /\ probePort = 0
    /\ probeResult = NoProbe
    /\ docker \in {NoDocker, OneContainer}
    /\ registryExists = FALSE
    /\ registry = <<>>
    /\ listeners = {}
    /\ portRequest = NoRequest
    /\ portResponse = NoResponse
    /\ handler = Idle

Init ==
    /\ PortInit
    /\ docker = NoDocker
    /\ cpu \in Readings
    /\ memory \in Readings
    /\ disk \in Readings
    /\ diskCheck = NotRead
    /\ memoryCheck = NotRead
    /\ pgDriver \in BOOLEAN
    /\ pgUp \in BOOLEAN
    /\ sqliteUp \in BOOLEAN
    /\ stubs = <<>>
    /\ request = NoRequest
    /\ response = NoResponse

Next ==
    \/ \E path \in HealthPaths : SendRequest(path)
    \/ HandleBasicHealth
    \/ HandleDetailedHealth
    \/ HandleDatabaseHealth
    \/ HandleServicesHealth
    \/ HandleSystemHealth
    \/ HandleMetrics
    \/ HandleNotFound

Spec == Init /\ [][Next]_vars

(***************************************************************************)
(* The aggregation of handle_detailed_health over arbitrary component      *)
(* reports: the five check_* methods are replaced by stubs returning any   *)
(* verdict, or a report without a status field.                            *)
(***************************************************************************)
Verdicts == {"healthy", "warning", "unhealthy", "unavailable", "unknown"}
StubReports == {[status |-> v] : v \in Verdicts} \cup {[error |-> "failed"]}

InitAgg ==
    /\ PortInit
    /\ docker = NoDocker
    /\ cpu = Reading(70)
    /\ memory = Reading(70)
    /\ disk = Reading(70)
    /\ diskCheck = NotRead
    /\ memoryCheck = NotRead
    /\ pgDriver = TRUE
    /\ pgUp = TRUE
    /\ sqliteUp = TRUE
    /\ stubs \in [1..Len(ComponentNames) -> StubReports]
    /\ request = NoRequest
    /\ response = NoResponse

NextAgg ==
    \/ SendRequest("/health/detailed")
    \/ HandleDetailedHealth

SpecAgg == InitAgg /\ [][NextAgg]_vars

(***************************************************************************)
(* The port status service.                                                *)
(***************************************************************************)
InitPorts ==
    /\ PortInit
    /\ cpu = Reading(70)
    /\ memory = Reading(70)
    /\ disk = Reading(70)
    /\ diskCheck = NotRead
    /\ memoryCheck = NotRead
    /\ pgDriver = TRUE
    /\ pgUp = TRUE
    /\ sqliteUp = TRUE
    /\ stubs = <<>>
    /\ request = NoRequest
    /\ response = NoResponse

NextPorts ==
    \/ \E path \in PortPaths : PortSendRequest(path)
    \/ PortReceiveResponse
    \/ HandleHealthCheck
    \/ StartPortStatus
    \/ ProbeNextPort
    \/ FinishPortStatus
    \/ StartServiceDiscovery
    \/ ProbeNextService
    \/ FinishServiceDiscovery
    \/ HandleContainerStatus
    \/ HandleIndex
    \/ PortHandleNotFound
    \/ \E line \in RegistryLines : AppendRegistryLine(line)
    \/ RemoveRegistry
    \/ \E port \in ListenPorts : OpenListener(port)
    \/ \E port \in ListenPorts : CloseListener(port)

SpecPorts == InitPorts /\ [][NextPorts]_vars

(***************************************************************************)
(* The port probe on its own: is_port_available called with any port, on   *)
(* any set of listeners, under any network condition.                      *)
(***************************************************************************)
ProbePortNumbers == {-1, 0, 3000, 8080, 65535, 65536, 70000}

CallIsPortAvailable ==
    /\ probeResult = NoProbe
    /\ probeResult' = [called |-> TRUE,
                       available |-> IsPortAvailable(probePort, listeners)]
    /\ UNCHANGED <<network, probePort, docker>>
    /\ UNCHANGED portVars
    /\ UNCHANGED healthVars

HealthIdle ==
    /\ cpu = Reading(70)
    /\ memory = Reading(70)
    /\ disk = Reading(70)
    /\ diskCheck = NotRead
    /\ memoryCheck = NotRead
    /\ pgDriver = TRUE
    /\ pgUp = TRUE
    /\ sqliteUp = TRUE
    /\ stubs = <<>>
    /\ request = NoRequest
    /\ response = NoResponse

InitProbe ==
    /\ HealthIdle
    /\ registryExists = FALSE
    /\ registry = <<>>
    /\ portRequest = NoRequest
    /\ portResponse = NoResponse
    /\ handler = Idle
    /\ docker = NoDocker
    /\ listeners \in SUBSET ListenPorts
    /\ network \in Networks
    /\ probePort \in ProbePortNumbers
    /\ probeResult = NoProbe

NextProbe == CallIsPortAvailable

SpecProbe == InitProbe /\ [][NextProbe]_vars

(***************************************************************************)
(* The container listing: GET /containers over any outcome of docker ps.   *)
(***************************************************************************)
RECURSIVE Listings(_)
Listings(n) ==
    IF n = 0 THEN {<<>>}
    ELSE Listings(n - 1) \cup
         {Append(l, line) : l \in {k \in Listings(n - 1) : Len(k) = n - 1},
                            line \in ListingLines}

InitContainers ==
    /\ HealthIdle
    /\ registryExists = FALSE
    /\ registry = <<>>
    /\ listeners = {}
    /\ portRequest = NoRequest
    /\ portResponse = NoResponse
    /\ handler = Idle
    /\ network = "up"
    /\ probePort = 0
    /\ probeResult = NoProbe
    /\ docker \in [outcome : DockerOutcomes, stdout : Listings(MaxListingLines)]

NextContainers ==
    \/ PortSendRequest("/containers")
    \/ HandleContainerStatus
    \/ PortReceiveResponse

SpecContainers == InitContainers /\ [][NextContainers]_vars

(***************************************************************************)
(* Properties of the health server.                                        *)
(***************************************************************************)
Answered(path) == response # NoResponse /\ response.path = path

\* the reports of the components of a /health/detailed response
ReportsOf(body) == {body.components[i].report : i \in 1..Len(body.components)}
Votes(report) ==
    "status" \in DOMAIN report
    /\ report.status \in {"healthy", "warning", "unhealthy"}
HasVerdict(body, v) ==
    \E r \in ReportsOf(body) : "status" \in DOMAIN r /\ r.status = v

\* C1: when at least one of the five component verdicts of /health/detailed
\* is healthy, warning or unhealthy, the overall status is unhealthy if any
\* component is unhealthy, else warning if any is warning, else healthy;
\* unavailable, unknown and status-less components do not change it.
C1_OverallPrecedence ==
    (Answered("/health/detailed")
     /\ \E r \in ReportsOf(response.body) : Votes(r))
    => response.body.status =
          IF HasVerdict(response.body, "unhealthy") THEN "unhealthy"
          ELSE IF HasVerdict(response.body, "warning") THEN "warning"
          ELSE "healthy"

\* a healthy overall status next to unavailable, unknown and status-less
\* components; and an unhealthy one that beats a warning
C1_Witness ==
    /\ Answered("/health/detailed")
    /\ stubs # <<>>
    /\ stubs[1] = [status |-> "unavailable"]
    /\ stubs[2] = [status |-> "healthy"]
    /\ stubs[3] = [error |-> "failed"]
    /\ stubs[4] = [status |-> "unknown"]
    /\ stubs[5] = [status |-> "healthy"]
    /\ response.body.status = "healthy"

\* C2: when every component verdict is unavailable or unknown, the overall
\* status is unknown.  The aggregation alone (SpecAgg, the checkers replaced
\* by arbitrary reports) answers healthy there; the server's own checkers
\* never produce such a combination (CheckersAlwaysVote).
C2_AllUnknownIsUnknown ==
    (Answered("/health/detailed")
     /\ \A r \in ReportsOf(response.body) : ~Votes(r))
    => response.body.status = "unknown"

\* every report the server's five checkers give /health/detailed has the
\* verdict healthy, warning or unhealthy: unavailable only occurs inside the
\* database report, for the postgresql sub-check
CheckersAlwaysVote ==
    (Answered("/health/detailed") /\ stubs = <<>>)
    => \A r \in ReportsOf(response.body) : Votes(r)

\* the overall verdict /health/detailed gives for the current readings,
\* when they stay as they are during its request
OverallVerdict == DetermineOverall(Components(disk, memory))

\* C3: the fdr_health_status sample of /metrics is 1 exactly when the
\* overall health verdict is healthy, and 0 for every other verdict.
C3_HealthFlagFollowsVerdict ==
    Answered("/metrics")
    => \A i \in 1..Len(response.body.samples) :
          response.body.samples[i].name = "fdr_health_status"
          => response.body.samples[i].value =
                IF OverallVerdict = "healthy" THEN 1 ELSE 0

\* C4: check_database_health is healthy if either sub-attempt is healthy,
\* and unhealthy only if both sub-attempts have verdict unhealthy.
C4_DatabaseVerdict ==
    Answered("/health/database")
    => LET db == response.body
       IN  /\ (db.postgresql.status = "healthy"
               \/ db.sqlite.status = "healthy") => db.status = "healthy"
           /\ db.status = "unhealthy"
              => (db.postgresql.status = "unhealthy"
                  /\ db.sqlite.status = "unhealthy")

\* the database reports in the last response
AnsweredDatabaseReports ==
    IF Answered("/health/database") THEN {response.body}
    ELSE IF Answered("/health/detailed")
    THEN {response.body.components[1].report}
    ELSE {}

\* C5: when the PostgreSQL driver is missing, the PostgreSQL sub-attempt is
\* unavailable (never unhealthy), the SQLite sub-attempt has still run (its
\* entry shows the outcome of the SQLite connection), and the two outcomes
\* are separate entries of the database report.
C5_MissingDriverUnavailable ==
    \A db \in AnsweredDatabaseReports :
        ~pgDriver
        => /\ {"postgresql", "sqlite"} \subseteq DOMAIN db
           /\ db.postgresql.status = "unavailable"
           /\ db.postgresql.type = "postgresql"
           /\ db.sqlite.type = "sqlite"
           /\ db.sqlite.status = IF sqliteUp THEN "healthy" ELSE "unhealthy"

\* the driver is missing and the SQLite attempt that ran after it succeeded
C5_Witness ==
    /\ Answered("/health/database")
    /\ ~pgDriver
    /\ response.body.postgresql.status = "unavailable"
    /\ response.body.sqlite.status = "healthy"
    /\ response.body.status = "healthy"

\* classification of one utilisation by a warning and a critical threshold
Classify(percent, warning, critical) ==
    IF percent > critical THEN "unhealthy"
    ELSE IF percent > warning THEN "warning"
    ELSE "healthy"
Worst(verdicts) ==
    IF "unhealthy" \in verdicts THEN "unhealthy"
    ELSE IF "warning" \in verdicts THEN "warning"
    ELSE "healthy"
AllRead == cpu.ok /\ memory.ok /\ disk.ok

\* C6: everywhere disk utilisation is classified, above 95 is unhealthy,
\* above 85 and at most 95 is warning, and at most 85 does not raise the
\* verdict: the disk component, and the system component whose CPU and
\* memory are at most 70.
C6_DiskThresholds ==
    /\ (Answered("/health/detailed") /\ stubs = <<>> /\ diskCheck.ok)
       => response.body.components[4].report.status
             = Classify(diskCheck.percent, 85, 95)
    /\ (Answered("/health/system") /\ AllRead
        /\ cpu.percent <= 70 /\ memory.percent <= 70)
       => response.body.status = Classify(disk.percent, 85, 95)

\* C7: everywhere CPU or memory utilisation is classified, above 90 is
\* unhealthy, above 70 and at most 90 is warning, and at most 70 does not
\* raise the verdict: the memory component, and the system component whose
\* disk is at most 80.
C7_CpuMemoryThresholds ==
    /\ (Answered("/health/detailed") /\ stubs = <<>> /\ memoryCheck.ok)
       => response.body.components[5].report.status
             = Classify(memoryCheck.percent, 70, 90)
    /\ (Answered("/health/system") /\ AllRead /\ disk.percent <= 80)
       => response.body.status
             = Worst({Classify(cpu.percent, 70, 90),
                      Classify(memory.percent, 70, 90)})

(***************************************************************************)
(* Properties of the port status service.  The registry is described here  *)
(* line by line, without the reader's dict.                                *)
(***************************************************************************)
PortAnswered(path) == portResponse # NoResponse /\ portResponse.path = path

DescriptorKeys == {service_mapping[j].key : j \in 1..Len(service_mapping)}
TableIndex(short) ==
    CHOOSE j \in 1..Len(service_mapping) :
        ShortKey(service_mapping[j].key) = short

\* the line, stripped, reads key=value
Assigns(line, key) ==
    LET l == Strip(line)
    IN  Len(l) > Len(key) /\ SubSeq(l, 1, Len(key)) = key
        /\ l[Len(key) + 1] = "="
AssignedValue(line, key) ==
    LET l == Strip(line) IN SubSeq(l, Len(key) + 2, Len(l))
LinesFor(key) ==
    {i \in 1..Len(registry) : registryExists /\ Assigns(registry[i], key)}
Registered(key) == LinesFor(key) # {}
FirstLine(key) == CHOOSE i \in LinesFor(key) : \A j \in LinesFor(key) : i <= j
LastLine(key) == CHOOSE i \in LinesFor(key) : \A j \in LinesFor(key) : j <= i
RegisteredValue(key) == AssignedValue(registry[LastLine(key)], key)
IsDecimal(value) ==
    value # <<>> /\ \A i \in 1..Len(value) : value[i] \in DecimalDigits
\* the connects the handler made for the key in this request
ConnectsFor(key) ==
    {i \in 1..Len(handler.connects) : handler.connects[i].key = key}
\* the key is registered with a decimal port, the handler connected to that
\* port and a listener accepted
Occupied(key) ==
    /\ Registered(key)
    /\ IsDecimal(RegisteredValue(key))
    /\ \E i \in ConnectsFor(key) :
          /\ handler.connects[i].port = DecimalValue(RegisteredValue(key))
          /\ handler.connects[i].accepted
\* the key is registered with a decimal port and the handler has not
\* connected to it
NotProbed(key) ==
    /\ Registered(key)
    /\ IsDecimal(RegisteredValue(key))
    /\ ConnectsFor(key) = {}

\* the short keys a /services response lists, in its order
Listed(resp) ==
    IF resp.body.status = "success"
    THEN [i \in 1..Len(resp.body.services) |-> resp.body.services[i].key]
    ELSE <<>>
ListedSet(resp) == {Listed(resp)[i] : i \in 1..Len(Listed(resp))}

\* C8: the service-discovery result never contains a service whose key is
\* absent from the registry or from the descriptor table, nor one whose
\* port probed free; and every registry key of the descriptor table with a
\* decimal port that is occupied is included.
C8_DiscoveryExact ==
    PortAnswered("/services")
    => /\ \A s \in ListedSet(portResponse) :
             \E k \in DescriptorKeys : ShortKey(k) = s /\ Occupied(k)
       /\ \A k \in DescriptorKeys :
             /\ Occupied(k) => ShortKey(k) \in ListedSet(portResponse)
             /\ ~NotProbed(k)

\* C9 as stated: the services appear in the order of the descriptor table,
\* for every order of the keys in the registry file.
C9_DescriptorTableOrder ==
    PortAnswered("/services")
    => \A i, j \in 1..Len(Listed(portResponse)) :
          i < j => TableIndex(Listed(portResponse)[i])
                      < TableIndex(Listed(portResponse)[j])

\* C9 (amended): the services appear in the order in which their keys first
\* appear in the registry file, filtered to the running ones.
C9_RegistryFileOrder ==
    PortAnswered("/services")
    => \A i, j \in 1..Len(Listed(portResponse)) :
          i < j => FirstLine(service_mapping[
                                 TableIndex(Listed(portResponse)[i])].key)
                      < FirstLine(service_mapping[
                                      TableIndex(Listed(portResponse)[j])].key)

\* backend is listed before frontend, as in the file; frontend was assigned
\* twice and keeps the place of its first line
C9_Witness ==
    /\ PortAnswered("/services")
    /\ Listed(portResponse) = <<"backend", "frontend">>
    /\ FirstLine(BACKEND_PORT) = 1
    /\ FirstLine(FRONTEND_PORT) = 2
    /\ LastLine(FRONTEND_PORT) = 3

\* C10: every /services response reflects the registry and the listeners
\* at the time of its request: a service is present exactly when its
\* registered port had a listener as the request connected to it, whatever
\* earlier requests returned.
C10_ReflectsRequestTime ==
    [][(portRequest = "/services" /\ portRequest' = NoRequest)
       => \A k \in DescriptorKeys :
             /\ ShortKey(k) \in ListedSet(portResponse') <=> Occupied(k)
             /\ ~NotProbed(k)]_vars

(***************************************************************************)
(* The port probe                                                          *)
(***************************************************************************)
ProbeReturned == probeResult # NoProbe

\* the connection to localhost:probePort is accepted: the network works and
\* something listens on that port
Accepted == network = "up" /\ probePort \in listeners

\* C11: the probe always returns; it returns false (occupied) exactly when
\* the connection to localhost:port is accepted, and true (available) when
\* it is refused, times out, or the probe raises (no socket, name not
\* resolved, port out of range).
C11_ProbeContract ==
    ProbeReturned =>
        /\ probeResult.available \in BOOLEAN
        /\ probeResult.available = FALSE <=> Accepted

C11_Witness ==
    /\ ProbeReturned
    /\ probePort > MaxPort
    /\ network = "up"
    /\ probeResult.available = TRUE

(***************************************************************************)
(* The registry reader                                                     *)
(***************************************************************************)
\* a key of the registry: no blank, no '#' and no '=' in it
IsKey(key) ==
    key # <<>> /\ \A i \in 1..Len(key) : key[i] \notin {" ", "#", "="}

\* the line, surrounding blanks apart, reads KEY_PORT=integer
ValidLine(line) ==
    LET l == Strip(line)
    IN  \E i \in 1..(Len(l) - 1) :
            /\ l[i] = "_PORT" /\ l[i + 1] = "="
            /\ IsKey(SubSeq(l, 1, i))
            /\ IsDecimal(SubSeq(l, i + 2, Len(l)))
ValidKey(line) ==
    LET l == Strip(line)
        eq == CHOOSE i \in 1..Len(l) :
                  l[i] = "=" /\ \A j \in 1..(i - 1) : l[j] # "="
    IN  SubSeq(l, 1, eq - 1)

\* a blank line, a comment line, a line without '=', or a line whose key
\* (the text before the first '=') does not end in _PORT
BlankLine(line) == \A i \in 1..Len(line) : line[i] = " "
CommentLine(line) == ~BlankLine(line) /\ Strip(line)[1] = "#"
NoEqLine(line) == \A i \in 1..Len(line) : line[i] # "="
OtherKeyLine(line) ==
    LET l == Strip(line)
    IN  \E i \in 1..Len(l) :
            /\ l[i] = "="
            /\ \A j \in 1..(i - 1) : l[j] # "="
            /\ (i = 1 \/ l[i - 1] # "_PORT")
SkippedLine(line) ==
    BlankLine(line) \/ CommentLine(line) \/ NoEqLine(line)
        \/ OtherKeyLine(line)

\* the registry file is made of valid lines and of lines to skip only
PlainRegistry ==
    \A i \in 1..Len(registry) :
        ValidLine(registry[i]) \/ SkippedLine(registry[i])
ValidLines == {i \in 1..Len(registry) : ValidLine(registry[i])}

\* what the reader returns for the registry file as it is now
ReadNow == GetPortAssignments(registryExists, registry)

\* C12: for a registry file made of valid KEY_PORT=integer lines and of
\* blank lines, comment lines, lines without '=' and lines whose key does
\* not end in _PORT, the reader returns exactly one entry per key of a
\* valid line (with the value of the last such line) and nothing for the
\* other lines; a missing file gives the empty mapping.
C12_ReaderKeepsValidLines ==
    LET read == ReadNow
    IN  /\ ~registryExists => read = <<>>
        /\ (registryExists /\ PlainRegistry) =>
              /\ \A i, j \in 1..Len(read) :
                    read[i].key = read[j].key => i = j
              /\ {read[i].key : i \in 1..Len(read)}
                    = {ValidKey(registry[i]) : i \in ValidLines}
              /\ \A i \in 1..Len(read) :
                    read[i].value = RegisteredValue(read[i].key)

\* a comment, a line without '=' and a valid line: /ports lists the valid
\* line's key alone
C12_Witness ==
    /\ PortAnswered("/ports")
    /\ registryExists /\ PlainRegistry
    /\ Len(registry) = 3
    /\ CommentLine(registry[1])
    /\ NoEqLine(registry[2]) /\ ~BlankLine(registry[2])
    /\ ValidLine(registry[3])
    /\ portResponse.body.status = "success"
    /\ Len(portResponse.body.ports) = 1
    /\ portResponse.body.ports[1].key = ValidKey(registry[3])

(***************************************************************************)
(* The ports reported by /ports and /services                              *)
(***************************************************************************)
\* the port numbers a response reports
ReportedPorts(resp) ==
    IF resp.body.status # "success" THEN {}
    ELSE IF resp.path = "/ports"
    THEN {resp.body.ports[i].value.port : i \in 1..Len(resp.body.ports)}
    ELSE {resp.body.services[i].value.port :
             i \in 1..Len(resp.body.services)}

\* C13: every port reported by /ports and /services is a positive integer
\* no greater than 65535; a registry line whose value is not a decimal
\* integer is dropped silently (the request still succeeds), and a value
\* of 0 or above 65535 produces no entry.
C13_ReportedPortsInRange ==
    \A path \in {"/ports", "/services"} :
        PortAnswered(path) =>
            /\ portResponse.code = 200
            /\ \A port \in ReportedPorts(portResponse) :
                  port >= 1 /\ port <= MaxPort

(***************************************************************************)
(* The /ports document                                                     *)
(***************************************************************************)
PortsDocument ==
    PortAnswered("/ports") /\ portResponse.body.status = "success"

\* no line of the registry file contributes a key
NoMatchingKey == \A i \in 1..Len(registry) : SkippedLine(registry[i])

\* C14: in every /ports document total_ports is the number of entries of
\* ports, ports_in_use the number of entries with available = false, and
\* an entry's url is non-null exactly when available = false; a registry
\* with zero matching keys gives an empty ports and total_ports = 0.
C14_PortsDocumentCounts ==
    /\ PortsDocument =>
          LET doc == portResponse.body
              entries == {doc.ports[i].value : i \in 1..Len(doc.ports)}
          IN  /\ doc.total_ports = Len(doc.ports)
              /\ doc.ports_in_use =
                    Cardinality({i \in 1..Len(doc.ports) :
                                    doc.ports[i].value.available = FALSE})
              /\ \A e \in entries : e.url # PyNone <=> e.available = FALSE
    /\ (PortAnswered("/ports") /\ NoMatchingKey) =>
          /\ PortsDocument
          /\ portResponse.body.ports = <<>>
          /\ portResponse.body.total_ports = 0

\* two entries, one port held by a listener and one free
C14_Witness ==
    /\ PortsDocument
    /\ portResponse.body.total_ports = 2
    /\ portResponse.body.ports_in_use = 1
    /\ portResponse.body.ports[1].value.url = PyNone
    /\ portResponse.body.ports[2].value.url # PyNone

(***************************************************************************)
(* The /services document                                                  *)
(***************************************************************************)
ServicesDocument ==
    PortAnswered("/services") /\ portResponse.body.status = "success"

\* C19: in every /services document every listed service has status
\* "running", and running_services = total_services = the number of
\* entries of services; no entry with status "stopped" is produced.
C19_ListedServicesRun ==
    ServicesDocument =>
        LET doc == portResponse.body
        IN  /\ \A i \in 1..Len(doc.services) :
                  doc.services[i].value.status = "running"
            /\ doc.total_services = Len(doc.services)
            /\ doc.running_services = doc.total_services

C19_Witness ==
    /\ ServicesDocument
    /\ portResponse.body.total_services = 2
    /\ portResponse.body.running_services = 2
    /\ listeners = {3000, 8080}

(***************************************************************************)
(* The container listing                                                   *)
(***************************************************************************)
ContainersAnswered == PortAnswered("/containers")

\* the list command timed out, could not be started, or exited non-zero
ListCommandFailed == docker.outcome # "exit_0"

\* C15: when the list command times out, cannot be started or exits
\* non-zero, /containers answers 200 with an empty containers,
\* total_containers = 0 and running_containers = 0; /containers never
\* answers 500.
C15_FailedListingIsEmpty ==
    ContainersAnswered =>
        /\ portResponse.code = 200
        /\ ListCommandFailed =>
              /\ portResponse.body.containers = <<>>
              /\ portResponse.body.total_containers = 0
              /\ portResponse.body.running_containers = 0

\* the command exits non-zero after printing the line of a container
C15_Witness ==
    /\ ContainersAnswered
    /\ docker.outcome = "exit_1"
    /\ Len(docker.stdout) > 0
    /\ docker.stdout[1].json = "object"
    /\ portResponse.body.total_containers = 0

\* the lines of the listing that parse to a JSON object, in listing order
ObjectLines == SelectSeq(docker.stdout, LAMBDA line : line.json = "object")

\* C16: each line of the listing is parsed on its own: a line that is
\* invalid JSON or a JSON value that is no object is dropped, and every
\* parsable line before and after it yields its record, in listing order.
C16_LinesParsedIndependently ==
    (ContainersAnswered /\ docker.outcome = "exit_0") =>
        /\ Len(portResponse.body.containers) = Len(ObjectLines)
        /\ \A i \in 1..Len(ObjectLines) :
              portResponse.body.containers[i]
                  = ContainerRecord(ObjectLines[i].fields)

(***************************************************************************)
(* Failing checkers                                                        *)
(***************************************************************************)
\* a report of a failed check: unhealthy or unavailable, with the message
FailureReport(report) ==
    /\ report.status \in {"unhealthy", "unavailable"}
    /\ "error" \in DOMAIN report

\* C17: whichever checkers fail internally (one of the five psutil reads of
\* the request, the PostgreSQL driver or connection, the SQLite
\* connection), /health/detailed answers
\* 200 with the five components in the order database, system, services,
\* disk, memory; a failed checker reports unhealthy (or unavailable) with
\* its error message, and every other checker reports what its own inputs
\* give, as if nothing had failed.
C17_FailuresStayInTheirChecker ==
    Answered("/health/detailed") =>
        /\ response.code = 200
        /\ [i \in 1..Len(response.body.components) |->
               response.body.components[i].name] = ComponentNames
        /\ LET database == response.body.components[1].report
               system == response.body.components[2].report
               services == response.body.components[3].report
               diskReport == response.body.components[4].report
               memoryReport == response.body.components[5].report
           IN  /\ IF pgDriver /\ pgUp
                  THEN database.postgresql.status = "healthy"
                  ELSE FailureReport(database.postgresql)
               /\ IF sqliteUp
                  THEN database.sqlite.status = "healthy"
                  ELSE FailureReport(database.sqlite)
               /\ database.status =
                     IF (pgDriver /\ pgUp) \/ sqliteUp
                     THEN "healthy" ELSE "unhealthy"
               /\ IF AllRead
                  THEN /\ system.status =
                             Worst({Classify(cpu.percent, SYSTEM_WARNING,
                                             SYSTEM_CRITICAL),
                                    Classify(memory.percent, SYSTEM_WARNING,
                                             SYSTEM_CRITICAL),
                                    Classify(disk.percent,
                                             SYSTEM_DISK_WARNING,
                                             SYSTEM_CRITICAL)})
                       /\ "error" \notin DOMAIN system
                  ELSE FailureReport(system) /\ system.status = "unhealthy"
               /\ services.status = "healthy"
               /\ IF diskCheck.ok
                  THEN diskReport =
                          [status |-> Classify(diskCheck.percent,
                                               DISK_WARNING, DISK_CRITICAL),
                           usage_percent |-> diskCheck.percent]
                  ELSE FailureReport(diskReport)
                       /\ diskReport.status = "unhealthy"
               /\ IF memoryCheck.ok
                  THEN memoryReport =
                          [status |-> Classify(memoryCheck.percent,
                                               MEMORY_WARNING,
                                               MEMORY_CRITICAL),
                           usage_percent |-> memoryCheck.percent]
                  ELSE FailureReport(memoryReport)
                       /\ memoryReport.status = "unhealthy"

\* the CPU read, the memory checker's read and the PostgreSQL connection
\* fail; the disk checker reports its own reading
C17_Witness ==
    /\ Answered("/health/detailed")
    /\ ~cpu.ok /\ disk.ok /\ memory.ok
    /\ diskCheck.ok /\ ~memoryCheck.ok
    /\ pgDriver /\ ~pgUp /\ sqliteUp
    /\ response.code = 200
    /\ response.body.components[2].report.status = "unhealthy"
    /\ response.body.components[4].report.status = "warning"
    /\ response.body.components[5].report.status = "unhealthy"
    /\ response.body.components[1].report.status = "healthy"

(***************************************************************************)
(* The metrics text                                                        *)
(***************************************************************************)
MetricOrder ==
    <<"fdr_cpu_usage_percent", "fdr_memory_usage_percent",
      "fdr_disk_usage_percent", "fdr_uptime_seconds", "fdr_health_status">>

\* C18: every metrics output has exactly one fdr_health_status sample,
\* with value 0 or 1, also when reading the system snapshot fails; and the
\* metrics come in the order CPU, memory, disk, uptime, health status.
C18_OneHealthSample ==
    Answered("/metrics") =>
        LET samples == response.body.samples
        IN  /\ Cardinality({i \in 1..Len(samples) :
                               samples[i].name = "fdr_health_status"}) = 1
            /\ \A i \in 1..Len(samples) :
                  samples[i].name = "fdr_health_status"
                  => samples[i].value \in {0, 1}
            /\ [i \in 1..Len(samples) |-> samples[i].name] = MetricOrder

=============================================================================
